---- MODULE Spec2Model ----
(***************************************************************************)
(* Make.com MCP tool node: the SSE toolkit (sseCore.ts), the node's        *)
(* discovery callback and materializer, a materialized tool's invocation   *)
(* handler and the JSON-schema to validator conversion.                    *)
(*                                                                         *)
(* Three specifications share the variables:                               *)
(*   Spec       one SSEMCPToolkit instance whose initialize() and          *)
(*              get_tools() are called by any number of overlapping        *)
(*              callers (a call yields at each await);                     *)
(*   NodeSpec   one call of listMakeScenarios or of init, with the         *)
(*              toolkit it constructs, followed by invocations of the      *)
(*              tools init returned;                                       *)
(*   SchemaSpec createSchemaModel applied to an input schema and the       *)
(*              resulting validator applied to an input.                   *)
(***************************************************************************)
EXTENDS Integers, Sequences, FiniteSets, TLC

VARIABLES
    tk,         \* the toolkit instance: client, transport, _rawTools, tools
    calls,      \* each initialize() call: its position and how it ended
    nClients,   \* Client objects constructed so far (a fresh id per `new Client`)
    connects,   \* client.connect(transport) calls started
    lists,      \* tools/list requests sent
    failures,   \* initialize() attempts that went through the catch block
    succeeded,  \* some initialize() call has run to its end without throwing
    gt,         \* outcome of the last direct get_tools() call
    toolkits,   \* SSEMCPToolkit objects constructed by the node
    node,       \* the node-level call (listMakeScenarios or init)
    inv,        \* the invocation of a materialized tool
    zs          \* createSchemaModel: input schema, derived validator, input, verdict

vars == <<tk, calls, nClients, connects, lists, failures, succeeded, gt,
          toolkits, node, inv, zs>>

----------------------------------------------------------------------------
(* Bounds *)

MaxCalls == 3
MaxTools == 2
MaxParts == 2

Calls == 1..MaxCalls

----------------------------------------------------------------------------
(* Strings are sequences of characters or of opaque fragments. *)

NL == <<"\n">>
NoTextPlaceholder == <<"[No text content returned]">>
ErrorPrefix == <<"Error executing tool ">>

Names == {"alpha", "Beta", "gamma"}

\* Remote tool descriptors (one of them without a description) and catalogs
\* (the tools/list result); a catalog may name a tool twice.
Descriptors ==
    { [name |-> "alpha", description |-> <<"d">>],
      [name |-> "Beta",  description |-> <<>>],
      [name |-> "gamma", description |-> <<"d">>] }

SeqsUpTo(S, n) == UNION {[1..k -> S] : k \in 0..n}

Catalogs == SeqsUpTo(Descriptors, MaxTools)

----------------------------------------------------------------------------
(* SSEMCPToolkit *)

\* A freshly constructed toolkit: the constructor creates the transport only.
NewToolkit == [client |-> 0, transport |-> TRUE, rawTools |-> <<>>, tools |-> <<>>]

\* No toolkit object yet (the node has not constructed one).
NoToolkit == [client |-> 0, transport |-> FALSE, rawTools |-> <<>>, tools |-> <<>>]

\* The catch block of initialize(): client, transport, _rawTools, tools cleared.
ClearedState(t) ==
    [t EXCEPT !.client = 0, !.transport = FALSE, !.rawTools = <<>>, !.tools = <<>>]

\* `mcpTool.description || "Invoke <name> via MCP"`
DescriptionOrDefault(d) ==
    IF d.description # <<>> THEN d.description ELSE <<"Invoke ", d.name, " via MCP">>

\* MCPToolSSE: the tool keeps the client it was created with.
MCPToolSSE(client, name, description) ==
    [name |-> name, description |-> description, client |-> client]

\* The guard of get_tools().
GetToolsThrows(t) == t.rawTools = <<>> \/ t.client = 0

\* get_tools() past its guard: one tool per raw descriptor, in catalog order.
GetTools(t) ==
    LET cat == t.rawTools[1]
    IN  [i \in 1..Len(cat) |->
            MCPToolSSE(t.client, cat[i].name, DescriptionOrDefault(cat[i]))]

\* `this._rawTools === null`, the guard of initialize().
NotYetFetched(t) == t.rawTools = <<>>

IdleCall == [pc |-> "idle", outcome |-> "none", envFailed |-> FALSE,
             retry |-> FALSE, overlapped |-> FALSE, ready |-> FALSE,
             built |-> <<>>]

InFlight(c) == calls[c].pc \in {"connecting", "listing", "building"}

\* Calls already in flight learn that another call has entered.
MarkOverlap(cs, c) ==
    [d \in Calls |->
        IF d # c /\ cs[d].pc \in {"connecting", "listing", "building"}
        THEN [cs[d] EXCEPT !.overlapped = TRUE]
        ELSE cs[d]]

\* initialize() on toolkit state t, from its entry to its first await.
InitializeEnterOn(t, c) ==
    /\ calls[c].pc = "idle"
    /\ \A d \in Calls : d < c => calls[d].pc # "idle"   \* calls are numbered as they enter
    /\ LET entered == [calls[c] EXCEPT
                          !.retry = (failures > 0),
                          !.overlapped = (\E d \in Calls : InFlight(d))]
       IN
       IF ~NotYetFetched(t)
       THEN /\ calls' = [calls EXCEPT ![c] = [entered EXCEPT !.pc = "done", !.outcome = "ok",
                                                             !.ready = ~GetToolsThrows(t)]]
            /\ succeeded' = TRUE
            /\ tk' = t
            /\ UNCHANGED <<nClients, connects>>
       ELSE /\ nClients' = nClients + 1
            /\ tk' = [t EXCEPT !.client = nClients + 1]
            /\ IF ~t.transport
               THEN \* 'SSE Transport is not initialized.', thrown outside the try
                    /\ calls' = [calls EXCEPT ![c] = [entered EXCEPT !.pc = "done", !.outcome = "threw"]]
                    /\ UNCHANGED <<connects, succeeded>>
               ELSE /\ calls' = MarkOverlap([calls EXCEPT ![c] = [entered EXCEPT !.pc = "connecting"]], c)
                    /\ connects' = connects + 1
                    /\ UNCHANGED succeeded
    /\ UNCHANGED <<lists, failures>>

\* initialize() called on the toolkit instance.
InitializeEnter(c) == InitializeEnterOn(tk, c)

\* The catch block and the re-throw (lines 56-65).
Catch(c, env) ==
    /\ tk' = ClearedState(tk)
    /\ failures' = failures + 1
    /\ calls' = [calls EXCEPT ![c] = [@ EXCEPT !.pc = "done", !.outcome = "threw",
                                               !.envFailed = env, !.built = <<>>]]

\* `await this.client.connect(this.transport)` settles; on success the
\* tools/list request is sent through whatever this.client is now.
ConnectDone(c) ==
    /\ calls[c].pc = "connecting"
    /\ \/ /\ tk.client # 0
          /\ lists' = lists + 1
          /\ calls' = [calls EXCEPT ![c].pc = "listing"]
          /\ UNCHANGED <<tk, failures>>
       \/ /\ tk.client = 0          \* this.client was cleared meanwhile: TypeError
          /\ Catch(c, FALSE)
          /\ UNCHANGED lists
       \/ /\ Catch(c, TRUE)         \* connect rejected
          /\ UNCHANGED lists
    /\ UNCHANGED <<nClients, connects, succeeded>>

\* `await this.client.request({method: 'tools/list'}, ...)` settles; on success
\* _rawTools is set and get_tools() runs up to its Promise.all.
ListDone(c) ==
    /\ calls[c].pc = "listing"
    /\ \/ \E cat \in Catalogs :
            LET t1 == [tk EXCEPT !.rawTools = <<cat>>]
            IN  IF GetToolsThrows(t1)
                THEN Catch(c, FALSE)
                ELSE /\ tk' = t1
                     /\ calls' = [calls EXCEPT ![c] = [@ EXCEPT !.pc = "building",
                                                                !.built = GetTools(t1)]]
                     /\ UNCHANGED failures
       \/ Catch(c, TRUE)            \* request rejected or result failed validation
    /\ UNCHANGED <<nClients, connects, lists, succeeded>>

\* `this.tools = await this.get_tools()` settles; initialize() returns.
BuildDone(c) ==
    /\ calls[c].pc = "building"
    /\ tk' = [tk EXCEPT !.tools = calls[c].built]
    /\ calls' = [calls EXCEPT ![c] = [@ EXCEPT !.pc = "done", !.outcome = "ok", !.built = <<>>,
                                               !.ready = ~GetToolsThrows(tk')]]
    /\ succeeded' = TRUE
    /\ UNCHANGED <<nClients, connects, lists, failures>>

\* A direct get_tools() call by the toolkit's user.
GetToolsCall ==
    /\ gt' = IF GetToolsThrows(tk) THEN "threw" ELSE "ok"
    /\ gt' # gt
    /\ UNCHANGED <<tk, calls, nClients, connects, lists, failures, succeeded>>

----------------------------------------------------------------------------
(* Credentials (MakeApi) and what getCredentialData can deliver *)

Undefined == "<undefined>"

\* The zones the credential offers, an unset or empty zone, and a stored value
\* that is no host name.
Zones == {Undefined, "", "eu1", "not a host"}
Tokens == {Undefined, "", "tok"}

\* getCredentialData: rejects, resolves to an object without the fields, or
\* resolves to the stored fields.
CredentialOutcomes ==
    { [kind |-> "throws", makeZone |-> Undefined, mcpToken |-> Undefined],
      [kind |-> "empty",  makeZone |-> Undefined, mcpToken |-> Undefined] }
    \cup [kind : {"data"}, makeZone : Zones, mcpToken : Tokens]

\* JavaScript truthiness of a string-or-undefined field.
Truthy(v) == v # Undefined /\ v # ""

\* (mutant) the token is not looked at.
CredentialsMissingZoneOnly(cd) == ~Truthy(cd.makeZone)

\* `!credentialData?.makeZone || !credentialData?.mcpToken`
CredentialsMissing(cd) == ~Truthy(cd.makeZone) \/ ~Truthy(cd.mcpToken)

\* `https://${makeZone}/mcp/api/v1/u/${mcpToken}/sse`
SseUrl(cd) == <<"https://", cd.makeZone, "/mcp/api/v1/u/", cd.mcpToken, "/sse">>

\* The toolkit constructor: throws without a url, and `new URL(url)` throws
\* on a url whose host does not parse.
ConstructorThrows(url) == url = <<>> \/ url[2] = "not a host"

----------------------------------------------------------------------------
(* MakeTool.loadMethods.listMakeScenarios and MakeTool.init *)

MaxDescriptionLen == 100

Min(a, b) == IF a < b THEN a ELSE b

\* errorMessage.substring(0, 100)
Truncate(msg) == SubSeq(msg, 1, Min(Len(msg), MaxDescriptionLen))

NoCredOption ==
    [label |-> "Configure Make.com Credentials First", name |-> "NO_CRED",
     description |-> <<"Credential details missing.">>]
NoScenariosOption ==
    [label |-> "No Scenarios Found", name |-> "NO_SCENARIOS",
     description |-> <<"Check Make.com MCP server or token.">>]
LoadErrorOption(msg) ==
    [label |-> "Error Loading Scenarios", name |-> "LOAD_ERROR",
     description |-> Truncate(msg)]

\* The message of the error initialize() or the constructor threw.
ConstructorMessage == <<"Invalid URL">>
InitializeMessage(cd) ==
    <<"Failed to connect or list tools from MCP server at ">> \o SseUrl(cd)

\* The option built for one tool.
ScenarioOption(t) ==
    [label |-> t.name, name |-> t.name,
     description |-> IF t.description # <<>> THEN t.description ELSE <<t.name>>]

\* a.label.localeCompare(b.label): the collation orders letters before case.
LocaleRank(label) ==
    CASE label = "alpha" -> 1
      [] label = "Beta"  -> 2
      [] label = "gamma" -> 3
      [] OTHER -> 0
LocaleCompare(a, b) == LocaleRank(a) - LocaleRank(b)

\* Array.prototype.sort with that comparator: a stable insertion of each
\* element, in turn, after the elements that do not compare greater.
RECURSIVE InsertSorted(_, _)
InsertSorted(x, s) ==
    IF s = <<>> THEN <<x>>
    ELSE IF LocaleCompare(Head(s).label, x.label) <= 0
         THEN <<Head(s)>> \o InsertSorted(x, Tail(s))
         ELSE <<x>> \o s

RECURSIVE SortOptions(_)
SortOptions(s) ==
    IF s = <<>> THEN <<>>
    ELSE InsertSorted(s[Len(s)], SortOptions(SubSeq(s, 1, Len(s) - 1)))

\* (mutant) the options are returned unsorted.
ScenariosUnsorted(tools) ==
    IF Len(tools) = 0
    THEN <<NoScenariosOption>>
    ELSE [i \in 1..Len(tools) |-> ScenarioOption(tools[i])]

\* What listMakeScenarios returns once toolkit.initialize() has resolved.
Scenarios(tools) ==
    IF Len(tools) = 0
    THEN <<NoScenariosOption>>
    ELSE SortOptions([i \in 1..Len(tools) |-> ScenarioOption(tools[i])])

\* (mutant) every fetched tool is returned.
SelectedToolsAll(tools, selectedActions) == tools

\* toolkit.tools.filter(tool => selectedActions.includes(tool.name))
SelectedTools(tools, selectedActions) ==
    SelectSeq(tools, LAMBDA t : t.name \in selectedActions)

NodeIdle == [op |-> "none", pc |-> "idle",
             cred |-> [kind |-> "empty", makeZone |-> Undefined, mcpToken |-> Undefined],
             selected |-> {}, outcome |-> "none", options |-> <<>>, tools |-> <<>>,
             fetched |-> FALSE]

NodeReturnOptions(n, opts) == [n EXCEPT !.pc = "done", !.outcome = "returned", !.options = opts]
NodeReturnTools(n, ts) == [n EXCEPT !.pc = "done", !.outcome = "returned", !.tools = ts]
NodeRaise(n) == [n EXCEPT !.pc = "done", !.outcome = "raised"]

\* The catch block of either method.
NodeCatch(n, msg) ==
    IF n.op = "list" THEN NodeReturnOptions(n, <<LoadErrorOption(msg)>>) ELSE NodeRaise(n)

\* The host calls listMakeScenarios(nodeData, options).
ListMakeScenarios ==
    /\ node.pc = "idle"
    /\ node' = [node EXCEPT !.op = "list", !.pc = "loading"]
    /\ UNCHANGED <<tk, calls, nClients, connects, lists, failures, succeeded, toolkits>>

\* The host calls init(nodeData, _, options) with nodeData.inputs.mcpActions.
NodeInitCall ==
    /\ node.pc = "idle"
    /\ \E sel \in SUBSET Names :
          node' = [node EXCEPT !.op = "init", !.pc = "loading", !.selected = sel]
    /\ UNCHANGED <<tk, calls, nClients, connects, lists, failures, succeeded, toolkits>>

\* `await getCredentialData(...)` settles; the method runs to its dynamic import.
CredentialLoaded ==
    /\ node.pc = "loading"
    /\ \E cd \in CredentialOutcomes :
         LET n == [node EXCEPT !.cred = cd]
         IN  node' =
               IF cd.kind = "throws" THEN NodeRaise(n)
               ELSE IF CredentialsMissing(cd)
                    THEN IF n.op = "list" THEN NodeReturnOptions(n, <<NoCredOption>>)
                                          ELSE NodeRaise(n)
               ELSE IF n.op = "init" /\ n.selected = {} THEN NodeReturnTools(n, <<>>)
               ELSE [n EXCEPT !.pc = "importing"]
    /\ UNCHANGED <<tk, calls, nClients, connects, lists, failures, succeeded, toolkits>>

\* `await import('../sseCore')` settles: the toolkit is constructed and
\* toolkit.initialize() is entered.
ToolkitCreated ==
    /\ node.pc = "importing"
    /\ IF ConstructorThrows(SseUrl(node.cred))
       THEN /\ node' = NodeCatch(node, ConstructorMessage)
            /\ UNCHANGED <<tk, calls, nClients, connects, lists, failures, succeeded, toolkits>>
       ELSE /\ toolkits' = toolkits + 1
            /\ InitializeEnterOn(NewToolkit, 1)
            /\ node' = [node EXCEPT !.pc = "initializing"]

\* `await toolkit.initialize()` settles and the method runs to its end.
NodeResume ==
    /\ node.pc = "initializing"
    /\ calls[1].pc = "done"
    /\ node' =
         IF calls[1].outcome = "threw"
         THEN NodeCatch(node, InitializeMessage(node.cred))
         ELSE IF node.op = "list"
              THEN NodeReturnOptions([node EXCEPT !.fetched = TRUE], Scenarios(tk.tools))
              ELSE NodeReturnTools([node EXCEPT !.fetched = TRUE],
                                   SelectedTools(tk.tools, node.selected))
    /\ UNCHANGED <<tk, calls, nClients, connects, lists, failures, succeeded, toolkits>>

\* The toolkit's initialize() steps while the node awaits them.
NodeToolkitStep ==
    /\ node.pc = "initializing"
    /\ \/ ConnectDone(1)
       \/ ListDone(1)
       \/ BuildDone(1)
    /\ UNCHANGED <<node, toolkits>>

----------------------------------------------------------------------------
(* The handler of a materialized tool (MCPToolSSE) *)

Texts == {<<>>, <<"a">>, <<"b">>}

\* Content parts of a tools/call result: text parts and a non-text part.
ContentParts ==
    {[type |-> "text", text |-> t] : t \in Texts} \cup {[type |-> "image", text |-> <<>>]}

Contents == SeqsUpTo(ContentParts, MaxParts)

\* How the tools/call exchange can fail, with the error's message.
ExchangeErrors == {<<"fetch failed">>, <<"MCP error -32602">>, <<"invalid result">>}

ToolInputs == {"{}", "{x:1}"}

\* (mutant) the parts are not filtered by type.
TextPartsAll(content) == content

\* response.content.filter(part => part.type === 'text')
TextParts(content) == SelectSeq(content, LAMBDA part : part.type = "text")

\* .map(part => part.text)
PartTexts(parts) == [i \in 1..Len(parts) |-> parts[i].text]

\* .join('\n')
RECURSIVE JoinLines(_)
JoinLines(ts) ==
    IF ts = <<>> THEN <<>>
    ELSE IF Len(ts) = 1 THEN ts[1]
    ELSE ts[1] \o NL \o JoinLines(Tail(ts))

\* `responseText || '[No text content returned]'`
OrPlaceholder(responseText) ==
    IF responseText # <<>> THEN responseText ELSE NoTextPlaceholder

\* The try branch: the text returned for a validated response.
ResponseResult(content) == OrPlaceholder(JoinLines(PartTexts(TextParts(content))))

\* (mutant) the error is thrown again.
ErrorResultRethrown(name, msg) == [outcome |-> "raised", result |-> <<>>]

\* The catch branch: what the handler does with a failed exchange.
ErrorResult(name, msg) ==
    [outcome |-> "returned", result |-> ErrorPrefix \o <<name, ": ">> \o msg]

InvIdle == [pc |-> "idle", tool |-> "", input |-> "", outcome |-> "none",
            failed |-> FALSE, content |-> <<>>, result |-> <<>>]

\* The workflow invokes one of the tools init returned: the request is sent.
InvokeStart ==
    /\ node.op = "init" /\ node.pc = "done" /\ node.outcome = "returned"
    /\ inv.pc \in {"idle", "done"}
    /\ \E i \in 1..Len(node.tools), input \in ToolInputs :
          inv' = [InvIdle EXCEPT !.pc = "awaiting", !.tool = node.tools[i].name,
                                 !.input = input]

\* `await client.request(request, CallToolResultSchema)` settles.
InvokeDone ==
    /\ inv.pc = "awaiting"
    /\ \/ \E content \in Contents :
            inv' = [inv EXCEPT !.pc = "done", !.outcome = "returned",
                               !.content = content, !.result = ResponseResult(content)]
       \/ \E msg \in ExchangeErrors :
            LET r == ErrorResult(inv.tool, msg)
            IN  inv' = [inv EXCEPT !.pc = "done", !.failed = TRUE,
                                   !.outcome = r.outcome, !.result = r.result]

----------------------------------------------------------------------------
(* createSchemaModel and the validator it builds *)

Keys == {"a", "b"}

\* Declared property types: the four mapped ones and an unmapped one.
PropTypes == {"string", "number", "boolean", "integer", "array"}

PropSchemas == [type : PropTypes, description : {"", "d"}]

PropertyMaps == UNION {[K -> PropSchemas] : K \in SUBSET Keys}

\* An input schema: its type, its properties (<<>> when absent, else <<map>>)
\* and its required list (<<>> when absent, else <<set of keys>>).
InputSchemas ==
    [type : {"object", Undefined},
     properties : {<<>>} \cup {<<m>> : m \in PropertyMaps},
     required : {<<>>} \cup {<<r>> : r \in SUBSET Keys}]

\* Kinds of JSON value an argument can have.
Values == {"string", "float", "int", "boolean", "null"}

ToolArguments == UNION {[K -> Values] : K \in SUBSET Keys}

\* The switch on propSchema.type.
ZodKind(type) ==
    CASE type = "string"  -> "string"
      [] type = "number"  -> "number"
      [] type = "boolean" -> "boolean"
      [] type = "integer" -> "int"
      [] OTHER            -> "any"

\* `Array.isArray(inputSchema.required) && inputSchema.required.includes(key)`
IsRequired(inputSchema, key) ==
    inputSchema.required # <<>> /\ key \in inputSchema.required[1]

\* The validator built for one property: the mapped type, optional unless
\* required, described when the property has a description.
ZodProperty(inputSchema, key) ==
    LET propSchema == inputSchema.properties[1][key]
    IN  [kind |-> ZodKind(propSchema.type),
         optional |-> ~IsRequired(inputSchema, key),
         description |-> propSchema.description]

EmptyObjectSchema == [shape |-> << >>, keys |-> {}]

\* A missing schema, a type other than 'object' or missing properties give
\* the empty object schema. The catch around the conversion (the passthrough
\* fallback) is not reached by any schema of this shape.
createSchemaModel(inputSchema) ==
    IF inputSchema.type # "object" \/ inputSchema.properties = <<>>
    THEN EmptyObjectSchema
    ELSE LET props == inputSchema.properties[1]
         IN  [shape |-> [k \in DOMAIN props |-> ZodProperty(inputSchema, k)],
              keys |-> DOMAIN props]

\* What each validator kind accepts of a supplied value.
AcceptsValue(kind, v) ==
    CASE kind = "string"  -> v = "string"
      [] kind = "number"  -> v \in {"float", "int"}
      [] kind = "int"     -> v = "int"
      [] kind = "boolean" -> v = "boolean"
      [] OTHER            -> TRUE

\* An absent key reads as undefined, which an optional or an any validator takes.
AcceptsKey(zt, input, k) ==
    IF k \in DOMAIN input
    THEN AcceptsValue(zt.kind, input[k])
    ELSE zt.optional \/ zt.kind = "any"

\* The object validator the tool is given as its schema: every key of the
\* shape is checked, keys outside the shape are dropped.
Validate(model, input) ==
    IF \A k \in model.keys : AcceptsKey(model.shape[k], input, k)
    THEN "accept" ELSE "reject"

ZsIdle == [pc |-> "idle",
           schema |-> [type |-> Undefined, properties |-> <<>>, required |-> <<>>],
           model |-> EmptyObjectSchema, input |-> << >>, verdict |-> "none"]

\* get_tools() converts a descriptor's inputSchema.
CreateSchema ==
    /\ zs.pc = "idle"
    /\ \E inputSchema \in InputSchemas :
          zs' = [zs EXCEPT !.pc = "built", !.schema = inputSchema,
                           !.model = createSchemaModel(inputSchema)]

\* The tool's schema is applied to the arguments of an invocation.
ValidateInput ==
    /\ zs.pc = "built"
    /\ \E input \in ToolArguments :
          zs' = [zs EXCEPT !.pc = "validated", !.input = input,
                           !.verdict = Validate(zs.model, input)]

Init ==
    /\ tk = NewToolkit
    /\ calls = [c \in Calls |-> IdleCall]
    /\ nClients = 0
    /\ connects = 0
    /\ lists = 0
    /\ failures = 0
    /\ succeeded = FALSE
    /\ gt = "none"
    /\ toolkits = 1
    /\ node = NodeIdle
    /\ inv = InvIdle
    /\ zs = ZsIdle

Next ==
    \/ \E c \in Calls : InitializeEnter(c) /\ UNCHANGED <<gt, toolkits, node, inv, zs>>
    \/ \E c \in Calls : ConnectDone(c) /\ UNCHANGED <<gt, toolkits, node, inv, zs>>
    \/ \E c \in Calls : ListDone(c) /\ UNCHANGED <<gt, toolkits, node, inv, zs>>
    \/ \E c \in Calls : BuildDone(c) /\ UNCHANGED <<gt, toolkits, node, inv, zs>>
    \/ GetToolsCall /\ UNCHANGED <<toolkits, node, inv, zs>>

Spec == Init /\ [][Next]_vars

NodeInit ==
    /\ tk = NoToolkit
    /\ calls = [c \in Calls |-> IdleCall]
    /\ nClients = 0
    /\ connects = 0
    /\ lists = 0
    /\ failures = 0
    /\ succeeded = FALSE
    /\ gt = "none"
    /\ toolkits = 0
    /\ node = NodeIdle
    /\ inv = InvIdle
    /\ zs = ZsIdle

NodeNext ==
    \/ ListMakeScenarios /\ UNCHANGED <<gt, inv, zs>>
    \/ NodeInitCall /\ UNCHANGED <<gt, inv, zs>>
    \/ CredentialLoaded /\ UNCHANGED <<gt, inv, zs>>
    \/ ToolkitCreated /\ UNCHANGED <<gt, inv, zs>>
    \/ NodeToolkitStep /\ UNCHANGED <<gt, inv, zs>>
    \/ NodeResume /\ UNCHANGED <<gt, inv, zs>>
    \/ InvokeStart /\ UNCHANGED <<tk, calls, nClients, connects, lists, failures, succeeded, gt, toolkits, node, zs>>
    \/ InvokeDone /\ UNCHANGED <<tk, calls, nClients, connects, lists, failures, succeeded, gt, toolkits, node, zs>>

NodeSpec == NodeInit /\ [][NodeNext]_vars

SchemaNext ==
    \/ CreateSchema /\ UNCHANGED <<tk, calls, nClients, connects, lists, failures, succeeded, gt, toolkits, node, inv>>
    \/ ValidateInput /\ UNCHANGED <<tk, calls, nClients, connects, lists, failures, succeeded, gt, toolkits, node, inv>>

SchemaSpec == Init /\ [][SchemaNext]_vars

----------------------------------------------------------------------------
(* Claims *)

ListDoneNode == node.op = "list" /\ node.pc = "done"
InitDoneNode == node.op = "init" /\ node.pc = "done"

IsSentinel(opts) ==
    Len(opts) = 1 /\ opts[1].name \in {"NO_CRED", "NO_SCENARIOS", "LOAD_ERROR"}

\* C1: listMakeScenarios never raises: whatever credential loading, toolkit
\* construction and toolkit.initialize() do, the call ends by returning a
\* list of options, and a failure is reported as one sentinel option.
C1_DiscoveryNeverRaises ==
    ListDoneNode =>
        /\ node.outcome = "returned"
        /\ (~node.fetched => IsSentinel(node.options))

\* C2: after a failed initialize(), a later initialize() on the same instance
\* that runs alone and meets no server failure retries from scratch and ends
\* with the instance initialized.
C2_RetryAfterFailureInitializes ==
    \A c \in Calls :
        (calls[c].pc = "done" /\ calls[c].retry /\ ~calls[c].overlapped
            /\ ~calls[c].envFailed)
        => (calls[c].outcome = "ok" /\ calls[c].ready)

\* C3: once some initialize() call has completed successfully, a call that
\* enters later sends no connect and no tools/list and leaves client,
\* transport, the raw catalog and the tools unchanged.
C3_LaterInitializeIsNoOp ==
    [][\A c \in Calls :
          (succeeded /\ calls[c].pc = "idle" /\ calls'[c].pc # "idle")
          => (tk' = tk /\ connects' = connects /\ lists' = lists)]_vars

\* C4: over any interleaving of initialize() calls on one instance, the
\* connect + tools/list sequence is started at most once, plus once for each
\* attempt that has already failed.
C4_ConnectStartedOncePerAttempt == connects <= 1 + failures

\* The names of the session's catalog are pairwise different.
UniqueNames(cat) ==
    \A i, j \in 1..Len(cat) : cat[i].name = cat[j].name => i = j

\* The options carry exactly the catalog's names, in ascending name order.
SortedOptionsOf(opts, cat) ==
    /\ Len(opts) = Len(cat)
    /\ {opts[i].name : i \in 1..Len(opts)} = {cat[i].name : i \in 1..Len(cat)}
    /\ \A i, j \in 1..Len(opts) :
          i < j => LocaleRank(opts[i].name) < LocaleRank(opts[j].name)

DiscoveryFetched ==
    ListDoneNode /\ node.outcome = "returned" /\ node.fetched /\ tk.rawTools # <<>>

\* C5 (as stated): with complete credentials and a reachable server whose
\* catalog has N uniquely named tools, discovery returns exactly N options,
\* one per tool, ordered by name, for every N including 0.
C5_DiscoveryReturnsNOptions ==
    (DiscoveryFetched /\ UniqueNames(tk.rawTools[1]))
    => SortedOptionsOf(node.options, tk.rawTools[1])

\* C5 (amended): for N >= 1 discovery returns exactly N options, one per
\* tool, ordered by name; for N = 0 it returns the single NO_SCENARIOS option.
C5_DiscoveryOptions ==
    (DiscoveryFetched /\ UniqueNames(tk.rawTools[1]))
    => IF Len(tk.rawTools[1]) = 0
       THEN Len(node.options) = 1 /\ node.options[1].name = "NO_SCENARIOS"
       ELSE SortedOptionsOf(node.options, tk.rawTools[1])

\* Discovery returned two options in an order other than the catalog's.
C5_Witness ==
    /\ DiscoveryFetched
    /\ Len(tk.rawTools[1]) = 2
    /\ Len(node.options) = 2
    /\ node.options[1].name = tk.rawTools[1][2].name
    /\ node.options[1].name # node.options[2].name

\* C6: when the loaded credential lacks the zone or the token, discovery
\* returns exactly the NO_CRED option and init throws, and neither constructs
\* a toolkit or attempts a connection, whatever names are selected.
C6_MissingCredentials ==
    (node.pc = "done" /\ node.cred.kind # "throws"
        /\ (node.cred.makeZone \in {Undefined, ""} \/ node.cred.mcpToken \in {Undefined, ""}))
    => /\ node.op = "list" => (/\ node.outcome = "returned"
                               /\ Len(node.options) = 1
                               /\ node.options[1].name = "NO_CRED")
       /\ node.op = "init" => node.outcome = "raised"
       /\ toolkits = 0 /\ connects = 0 /\ nClients = 0

\* init threw on a credential with a zone but no token, all names selected.
C6_Witness ==
    /\ InitDoneNode /\ node.outcome = "raised"
    /\ node.cred.kind = "data" /\ node.cred.makeZone = "eu1" /\ node.cred.mcpToken = ""
    /\ node.selected = Names
    /\ toolkits = 0

\* The returned tools are the catalog's descriptors named in the selection,
\* in catalog order, each carrying its descriptor's name and description.
FilteredFromCatalog(tools, cat, selected) ==
    LET idx == {i \in 1..Len(cat) : cat[i].name \in selected}
    IN  \E f \in [1..Len(tools) -> 1..Len(cat)] :
          /\ \A k, l \in 1..Len(tools) : k < l => f[k] < f[l]
          /\ {f[k] : k \in 1..Len(tools)} = idx
          /\ \A k \in 1..Len(tools) :
                /\ tools[k].name = cat[f[k]].name
                /\ cat[f[k]].description # <<>>
                     => tools[k].description = cat[f[k]].description
                /\ tools[k].client = tk.client

\* C7: whenever init returns, the returned tools are exactly the tools of the
\* catalog fetched in that call's own session whose names are selected, in
\* catalog order; without a session (nothing selected) nothing is returned.
C7_ReturnedToolsFromCatalog ==
    (InitDoneNode /\ node.outcome = "returned")
    => IF node.fetched
       THEN tk.rawTools # <<>>
            /\ FilteredFromCatalog(node.tools, tk.rawTools[1], node.selected)
       ELSE node.tools = <<>> /\ node.selected = {} /\ toolkits = 0

\* init returned fewer tools than the catalog holds, with a selected name the
\* catalog does not have.
C7_Witness ==
    /\ InitDoneNode /\ node.outcome = "returned" /\ node.fetched
    /\ Len(node.tools) = 1
    /\ Len(tk.rawTools[1]) = 2
    /\ \E n \in node.selected : \A i \in 1..Len(tk.rawTools[1]) : tk.rawTools[1][i].name # n

TextsOf(content) ==
    LET idx == {i \in 1..Len(content) : content[i].type = "text"}
    IN  IF idx = {} THEN <<>>
        ELSE LET RECURSIVE From(_)
                 From(i) == IF i > Len(content) THEN <<>>
                            ELSE IF i \in idx THEN <<content[i].text>> \o From(i + 1)
                            ELSE From(i + 1)
             IN  From(1)

\* A string cut at its newlines.
RECURSIVE SplitLines(_)
SplitLines(str) ==
    IF \A i \in 1..Len(str) : str[i] # "\n"
    THEN <<str>>
    ELSE LET i == CHOOSE i \in 1..Len(str) :
                      str[i] = "\n" /\ \A j \in 1..(i - 1) : str[j] # "\n"
         IN  <<SubSeq(str, 1, i - 1)>> \o SplitLines(SubSeq(str, i + 1, Len(str)))

InvocationSucceeded == inv.pc = "done" /\ ~inv.failed

\* C9 (as stated): for a successful response the result is the texts of the
\* text-typed parts joined by newlines, and the placeholder is returned if
\* and only if the response has no text-typed part.
C9_TextPartsJoined ==
    InvocationSucceeded
    => /\ (inv.result = NoTextPlaceholder) <=> (TextsOf(inv.content) = <<>>)
       /\ TextsOf(inv.content) # <<>> => SplitLines(inv.result) = TextsOf(inv.content)

\* C9 (amended): the result is the texts of the text-typed parts joined by
\* newlines whenever that joined string is not empty; it is the placeholder
\* when the response has no text-typed part or a single, empty, text part.
C9_TextPartsJoinedOrPlaceholder ==
    InvocationSucceeded
    => IF TextsOf(inv.content) = <<>> \/ TextsOf(inv.content) = << <<>> >>
       THEN inv.result = NoTextPlaceholder
       ELSE SplitLines(inv.result) = TextsOf(inv.content)

\* A response with a text part and a non-text part gave only the text.
C9_Witness ==
    /\ InvocationSucceeded
    /\ Len(inv.content) = 2
    /\ inv.content[1].type = "image"
    /\ inv.content[2] = [type |-> "text", text |-> <<"a">>]
    /\ inv.result = <<"a">>

\* C10: for a remote input schema (type object) with properties, the derived
\* validator rejects every input that omits a property named in required, and
\* accepts every input whose supplied values have the declared types (any
\* value for an unrecognized type) and that omits only properties not named
\* in required.
C10_RequiredEnforced ==
    (zs.pc = "validated" /\ zs.schema.type = "object" /\ zs.schema.properties # <<>>)
    => LET props == zs.schema.properties[1]
           req == IF zs.schema.required = <<>> THEN {}
                  ELSE zs.schema.required[1] \cap DOMAIN props
           fits(k) ==
               \/ props[k].type = "string" /\ zs.input[k] = "string"
               \/ props[k].type = "number" /\ zs.input[k] \in {"float", "int"}
               \/ props[k].type = "integer" /\ zs.input[k] = "int"
               \/ props[k].type = "boolean" /\ zs.input[k] = "boolean"
               \/ props[k].type = "array"
       IN  /\ (\E k \in req : k \notin DOMAIN zs.input) => zs.verdict = "reject"
           /\ ((\A k \in req : k \in DOMAIN zs.input)
                 /\ (\A k \in DOMAIN props \cap DOMAIN zs.input : fits(k)))
              => zs.verdict = "accept"

====
